---- MODULE Spec2Model ----
(***************************************************************************)
(* Docking in a gyre flow: the point-mass Swimmer (swimmer.py), the        *)
(* ApproachController with its dwell-time convergence counter              *)
(* (controller.py) and the single-run loop run_simulation (simulation.py). *)
(*                                                                         *)
(* Numbers.  The program computes in floating point; the model computes in *)
(* integers over fixed units, so that every sum and product of the code is *)
(* exact:                                                                  *)
(*     length  1 unit = 1e-4 m          time     1 unit = 0.1 s            *)
(*     speed   1 unit = 1e-3 m/s        (= length unit / time unit)        *)
(*     phase angles and headings: 1 unit = a quarter turn (pi/2 rad)       *)
(* Positions handed to the flow model lie on the coordinate axes, where    *)
(* radius, phase angle, cosine and sine are exact.                         *)
(***************************************************************************)
EXTENDS Integers, Sequences, FiniteSets, TLC

VARIABLES boat, strc, cont, sw_call, ev_call, ctl_call, sim, batch

vars == <<boat, strc, cont, sw_call, ev_call, ctl_call, sim, batch>>

(***************************************************************************)
(* Bounds of the model                                                     *)
(***************************************************************************)
MaxLifespan == 3

MaxUpdateCalls == 4

MaxTime == 2

MaxExtraCalls == 3

MaxTotalTime == 4

MaxRuns == 2

MaxRadii == 2

MaxProcesses == 2

MaxControlCalls == 2

(***************************************************************************)
(* numpy vectors: tuples of numbers                                        *)
(***************************************************************************)
Broadcastable(a, b) == Len(a) = Len(b) \/ Len(a) = 1 \/ Len(b) = 1

VecAdd(a, b) ==
    [i \in 1..(IF Len(a) >= Len(b) THEN Len(a) ELSE Len(b)) |->
        (IF Len(a) = 1 THEN a[1] ELSE a[i]) + (IF Len(b) = 1 THEN b[1] ELSE b[i])]

VecScale(a, k) == [i \in 1..Len(a) |-> a[i] * k]

(***************************************************************************)
(* swimmer.py : class Swimmer                                              *)
(* poseHist row i of the code (0-based) is poseHist[i + 1] here; a row is  *)
(* <<t, x, y, theta>>.                                                     *)
(***************************************************************************)
ZeroRow == <<0, 0, 0, 0>>

Swimmer(pose, lifespan) ==
    IF lifespan < 1
    THEN [exc |-> "IndexError",
          self |-> [life |-> 0, lifespan |-> lifespan, poseHist |-> <<>>]]
    ELSE [exc |-> "none",
          self |-> [life |-> 0,
                    lifespan |-> lifespan,
                    poseHist |-> [i \in 1..lifespan |->
                                    IF i = 1 THEN <<0>> \o pose ELSE ZeroRow]]]

get_pose(self) == SubSeq(self.poseHist[self.life + 1], 2, 4)

last_time(self) == self.poseHist[self.life + 1][1]

update_contVel_default == <<0, 0, 0>>

update_early_guard(self, t, vel, contVel) ==
    IF self.life >= self.lifespan - 2
    THEN [exc |-> "IndexError", self |-> self]
    ELSE LET dt == t - self.poseHist[self.life + 1][1]
             vel3 == IF Len(vel) = 2 THEN vel \o <<0>> ELSE vel
         IN  IF ~Broadcastable(vel3, contVel) \/ ~Broadcastable(get_pose(self), VecAdd(vel3, contVel))
             THEN [exc |-> "ValueError", self |-> self]
             ELSE LET newPose == VecAdd(get_pose(self), VecScale(VecAdd(vel3, contVel), dt))
                  IN  [exc |-> "none",
                       self |-> [self EXCEPT !.life = self.life + 1,
                                             !.poseHist[self.life + 2] = <<t>> \o newPose]]

update_pads_one(self, t, vel, contVel) ==
    IF self.life >= self.lifespan - 1
    THEN [exc |-> "IndexError", self |-> self]
    ELSE LET dt == t - self.poseHist[self.life + 1][1]
             vel3 == IF Len(vel) = 2 THEN vel \o <<1>> ELSE vel
         IN  IF ~Broadcastable(vel3, contVel) \/ ~Broadcastable(get_pose(self), VecAdd(vel3, contVel))
             THEN [exc |-> "ValueError", self |-> self]
             ELSE LET newPose == VecAdd(get_pose(self), VecScale(VecAdd(vel3, contVel), dt))
                  IN  [exc |-> "none",
                       self |-> [self EXCEPT !.life = self.life + 1,
                                             !.poseHist[self.life + 2] = <<t>> \o newPose]]

update_late_guard(self, t, vel, contVel) ==
    IF self.life >= self.lifespan
    THEN [exc |-> "IndexError", self |-> self]
    ELSE LET dt == t - self.poseHist[self.life + 1][1]
             vel3 == IF Len(vel) = 2 THEN vel \o <<0>> ELSE vel
         IN  IF ~Broadcastable(vel3, contVel) \/ ~Broadcastable(get_pose(self), VecAdd(vel3, contVel))
             THEN [exc |-> "ValueError", self |-> self]
             ELSE LET newPose == VecAdd(get_pose(self), VecScale(VecAdd(vel3, contVel), dt))
                  IN  [exc |-> "none",
                       self |-> [self EXCEPT !.life = self.life + 1,
                                             !.poseHist[self.life + 2] = <<t>> \o newPose]]

update_stores_dt(self, t, vel, contVel) ==
    IF self.life >= self.lifespan - 1
    THEN [exc |-> "IndexError", self |-> self]
    ELSE LET dt == t - self.poseHist[self.life + 1][1]
             vel3 == IF Len(vel) = 2 THEN vel \o <<0>> ELSE vel
         IN  IF ~Broadcastable(vel3, contVel) \/ ~Broadcastable(get_pose(self), VecAdd(vel3, contVel))
             THEN [exc |-> "ValueError", self |-> self]
             ELSE LET newPose == VecAdd(get_pose(self), VecScale(VecAdd(vel3, contVel), dt))
                  IN  [exc |-> "none",
                       self |-> [self EXCEPT !.life = self.life + 1,
                                             !.poseHist[self.life + 2] = <<dt>> \o newPose]]

update_in_place(self, t, vel, contVel) ==
    IF self.life >= self.lifespan - 1
    THEN [exc |-> "IndexError", self |-> self]
    ELSE LET dt == t - self.poseHist[self.life + 1][1]
             vel3 == IF Len(vel) = 2 THEN vel \o <<0>> ELSE vel
         IN  IF ~Broadcastable(vel3, contVel) \/ ~Broadcastable(get_pose(self), VecAdd(vel3, contVel))
             THEN [exc |-> "ValueError", self |-> self]
             ELSE LET newPose == VecAdd(get_pose(self), VecScale(VecAdd(vel3, contVel), dt))
                  IN  [exc |-> "none",
                       self |-> [self EXCEPT !.life = self.life + 1,
                                             !.poseHist[self.life + 1] = <<t>> \o newPose,
                                             !.poseHist[self.life + 2] = <<t>> \o newPose]]

update_drops_control(self, t, vel, contVel) ==
    IF self.life >= self.lifespan - 1
    THEN [exc |-> "IndexError", self |-> self]
    ELSE LET dt == t - self.poseHist[self.life + 1][1]
             vel3 == IF Len(vel) = 2 THEN vel \o <<0>> ELSE vel
         IN  IF ~Broadcastable(vel3, contVel) \/ ~Broadcastable(get_pose(self), VecAdd(vel3, contVel))
             THEN [exc |-> "ValueError", self |-> self]
             ELSE LET newPose == VecAdd(get_pose(self), VecScale(vel3, dt))
                  IN  [exc |-> "none",
                       self |-> [self EXCEPT !.life = self.life + 1,
                                             !.poseHist[self.life + 2] = <<t>> \o newPose]]

update_pads_control(self, t, vel, contVel) ==
    IF self.life >= self.lifespan - 1
    THEN [exc |-> "IndexError", self |-> self]
    ELSE LET dt == t - self.poseHist[self.life + 1][1]
             vel3 == IF Len(vel) = 2 THEN vel \o <<0>> ELSE vel
             cv3 == IF Len(contVel) = 2 THEN contVel \o <<0>> ELSE contVel
         IN  IF ~Broadcastable(vel3, cv3) \/ ~Broadcastable(get_pose(self), VecAdd(vel3, cv3))
             THEN [exc |-> "ValueError", self |-> self]
             ELSE LET newPose == VecAdd(get_pose(self), VecScale(VecAdd(vel3, cv3), dt))
                  IN  [exc |-> "none",
                       self |-> [self EXCEPT !.life = self.life + 1,
                                             !.poseHist[self.life + 2] = <<t>> \o newPose]]

update_stamps_before_guard(self, t, vel, contVel) ==
    IF self.life >= self.lifespan - 1
    THEN [exc |-> "IndexError",
          self |-> [self EXCEPT !.poseHist[self.life + 1][1] = t]]
    ELSE LET dt == t - self.poseHist[self.life + 1][1]
             vel3 == IF Len(vel) = 2 THEN vel \o <<0>> ELSE vel
         IN  IF ~Broadcastable(vel3, contVel) \/ ~Broadcastable(get_pose(self), VecAdd(vel3, contVel))
             THEN [exc |-> "ValueError", self |-> self]
             ELSE LET newPose == VecAdd(get_pose(self), VecScale(VecAdd(vel3, contVel), dt))
                  IN  [exc |-> "none",
                       self |-> [self EXCEPT !.life = self.life + 1,
                                             !.poseHist[self.life + 2] = <<t>> \o newPose]]

\* Swimmer.update: exc is the exception raised ("none" on success), self the
\* object afterwards.  The sum vel + contVel of two arrays of different
\* lengths is numpy's broadcasting ValueError.
update(self, t, vel, contVel) ==
    IF self.life >= self.lifespan - 1
    THEN [exc |-> "IndexError", self |-> self]
    ELSE LET dt == t - self.poseHist[self.life + 1][1]
             vel3 == IF Len(vel) = 2 THEN vel \o <<0>> ELSE vel
         IN  IF ~Broadcastable(vel3, contVel) \/ ~Broadcastable(get_pose(self), VecAdd(vel3, contVel))
             THEN [exc |-> "ValueError", self |-> self]
             ELSE LET newPose == VecAdd(get_pose(self), VecScale(VecAdd(vel3, contVel), dt))
                  IN  [exc |-> "none",
                       self |-> [self EXCEPT !.life = self.life + 1,
                                             !.poseHist[self.life + 2] = <<t>> \o newPose]]

(***************************************************************************)
(* anglefunctions.wrap_to_pi and flowfield.GyreFlow: the flow model the    *)
(* controller and the run loop call into.                                  *)
(***************************************************************************)
\* representative of an angle in (-pi, pi], in quarter turns: -1, 0, 1 or 2
wrap_to_pi(angle) == ((angle + 1) % 4) - 1

CosQ(q) == CASE q % 4 = 0 -> 1 [] q % 4 = 1 -> 0 [] q % 4 = 2 -> -1 [] q % 4 = 3 -> 0

SinQ(q) == CASE q % 4 = 0 -> 0 [] q % 4 = 1 -> 1 [] q % 4 = 2 -> 0 [] q % 4 = 3 -> -1

\* a flow model: solid-body rotation rate omega about the origin plus a
\* constant velocity bias (noise)
GyreFlow(omega, noise) == [omega |-> omega, noise |-> noise]

\* velocity of the flow at a position: tangential, perpendicular to the
\* radial vector, proportional to the radius, plus the bias
flow_func(flow, pos) == VecAdd(VecScale(<<-pos[2], pos[1]>>, flow.omega), flow.noise)

\* (radius, phase angle) of a position about the centre (0, 0), radius
\* increasing outward, angle increasing counter-clockwise from the x axis
get_state(flow, pos) ==
    CASE pos[1] = 0 /\ pos[2] = 0 -> <<0, 0>>
      [] pos[1] > 0 /\ pos[2] = 0 -> <<pos[1], 0>>
      [] pos[1] = 0 /\ pos[2] > 0 -> <<pos[2], 1>>
      [] pos[1] < 0 /\ pos[2] = 0 -> <<-pos[1], 2>>
      [] pos[1] = 0 /\ pos[2] < 0 -> <<-pos[2], -1>>

(***************************************************************************)
(* controller.py                                                           *)
(***************************************************************************)
FlowDirection_IN == -1

FlowDirection_OUT == 1

FlowOrientation_CW == -1

FlowOrientation_CCW == 1

FlowDirection == {FlowDirection_IN, FlowDirection_OUT}

FlowOrientation == {FlowOrientation_CW, FlowOrientation_CCW}

\* time_to_convergence = 2 s
time_to_convergence == 20

\* convergence_threshold = 0.01 m
convergence_threshold == 100

\* vel_from_thrusters = 0.01 m/s
vel_from_thrusters == 10

\* Kp = 0.5, as a fraction
Kp == [num |-> 1, den |-> 2]

\* floats that may be infinite
Inf == [inf |-> TRUE, v |-> 0]

Finite(v) == [inf |-> FALSE, v |-> v]

\* pi * 1e7 and a quarter turn in 1e-4 rad, rounded down
PiE7Lo == 31415926

QuarterTurnLo == 15707

ApproachController_zero_errors(flow_model, flow_ori, flow_dir, time_step) ==
    [Kp |-> Kp,
     vel_from_thrusters |-> vel_from_thrusters,
     flow_model |-> flow_model,
     flow_ori |-> flow_ori,
     flow_dir |-> flow_dir,
     convergence_count |-> 0,
     convergence_count_threshold |-> [num |-> time_to_convergence, den |-> time_step],
     r_diff |-> Finite(0),
     theta_diff |-> Finite(0)]

ApproachController(flow_model, flow_ori, flow_dir, time_step) ==
    [Kp |-> Kp,
     vel_from_thrusters |-> vel_from_thrusters,
     flow_model |-> flow_model,
     flow_ori |-> flow_ori,
     flow_dir |-> flow_dir,
     convergence_count |-> 0,
     convergence_count_threshold |-> [num |-> time_to_convergence, den |-> time_step],
     r_diff |-> Inf,
     theta_diff |-> Inf]

\* r_targ + gain * err * flow_dir > r_mob, for err in quarter turns: with
\* D = r_targ - r_mob and n = gain.num * err * flow_dir the test is
\* D + (n / gain.den) * (pi / 2) * 1e4 > 0, decided exactly for integer D
\* because pi is irrational.
r_des_exceeds(r_targ, gain, err, flow_dir, r_mob) ==
    LET D == r_targ - r_mob
        n == gain.num * err * flow_dir
        F(m) == (m * PiE7Lo) \div (2000 * gain.den)
    IN  CASE n = 0 -> D > 0
          [] n > 0 -> D >= -F(n)
          [] n < 0 -> D >= F(-n) + 1

get_control_vel_ignores_orientation(self, pos, targ) ==
    LET st_mob == get_state(self.flow_model, pos)
        st_targ == get_state(self.flow_model, targ)
        r_mob == st_mob[1]
        theta_mob == st_mob[2]
        r_targ == st_targ[1]
        theta_targ == st_targ[2]
        err == wrap_to_pi(theta_targ - theta_mob)
        dir == IF r_des_exceeds(r_targ, self.Kp, err, self.flow_dir, r_mob) THEN 1 ELSE -1
        control_vel == VecScale(<<CosQ(theta_mob), SinQ(theta_mob), 0>>,
                                dir * self.vel_from_thrusters)
    IN  [ret |-> control_vel,
         self |-> [self EXCEPT !.r_diff = Finite(r_targ - r_mob),
                               !.theta_diff = Finite(err)]]

get_control_vel_zero_on_tie(self, pos, targ) ==
    LET st_mob == get_state(self.flow_model, pos)
        st_targ == get_state(self.flow_model, targ)
        r_mob == st_mob[1]
        theta_mob == st_mob[2]
        r_targ == st_targ[1]
        theta_targ == st_targ[2]
        err == wrap_to_pi(theta_targ - theta_mob) * self.flow_ori
        dir == IF r_des_exceeds(r_targ, self.Kp, err, self.flow_dir, r_mob) THEN 1
               ELSE IF err = 0 /\ r_targ = r_mob THEN 0 ELSE -1
        control_vel == VecScale(<<CosQ(theta_mob), SinQ(theta_mob), 0>>,
                                dir * self.vel_from_thrusters)
    IN  [ret |-> control_vel,
         self |-> [self EXCEPT !.r_diff = Finite(r_targ - r_mob),
                               !.theta_diff = Finite(err)]]

get_control_vel_tie_outward(self, pos, targ) ==
    LET st_mob == get_state(self.flow_model, pos)
        st_targ == get_state(self.flow_model, targ)
        r_mob == st_mob[1]
        theta_mob == st_mob[2]
        r_targ == st_targ[1]
        theta_targ == st_targ[2]
        err == wrap_to_pi(theta_targ - theta_mob) * self.flow_ori
        dir == IF r_des_exceeds(r_targ, self.Kp, err, self.flow_dir, r_mob)
                  \/ (err = 0 /\ r_targ = r_mob) THEN 1 ELSE -1
        control_vel == VecScale(<<CosQ(theta_mob), SinQ(theta_mob), 0>>,
                                dir * self.vel_from_thrusters)
    IN  [ret |-> control_vel,
         self |-> [self EXCEPT !.r_diff = Finite(r_targ - r_mob),
                               !.theta_diff = Finite(err)]]

get_control_vel_uses_target_phase(self, pos, targ) ==
    LET st_mob == get_state(self.flow_model, pos)
        st_targ == get_state(self.flow_model, targ)
        r_mob == st_mob[1]
        theta_mob == st_mob[2]
        r_targ == st_targ[1]
        theta_targ == st_targ[2]
        err == wrap_to_pi(theta_targ - theta_mob) * self.flow_ori
        dir == IF r_des_exceeds(r_targ, self.Kp, err, self.flow_dir, r_mob) THEN 1 ELSE -1
        control_vel == VecScale(<<CosQ(theta_targ), SinQ(theta_targ), 0>>,
                                dir * self.vel_from_thrusters)
    IN  [ret |-> control_vel,
         self |-> [self EXCEPT !.r_diff = Finite(r_targ - r_mob),
                               !.theta_diff = Finite(err)]]

\* ApproachController.get_control_vel: ret is the returned control velocity,
\* self the controller afterwards
get_control_vel(self, pos, targ) ==
    LET st_mob == get_state(self.flow_model, pos)
        st_targ == get_state(self.flow_model, targ)
        r_mob == st_mob[1]
        theta_mob == st_mob[2]
        r_targ == st_targ[1]
        theta_targ == st_targ[2]
        err == wrap_to_pi(theta_targ - theta_mob) * self.flow_ori
        dir == IF r_des_exceeds(r_targ, self.Kp, err, self.flow_dir, r_mob) THEN 1 ELSE -1
        control_vel == VecScale(<<CosQ(theta_mob), SinQ(theta_mob), 0>>,
                                dir * self.vel_from_thrusters)
    IN  [ret |-> control_vel,
         self |-> [self EXCEPT !.r_diff = Finite(r_targ - r_mob),
                               !.theta_diff = Finite(err)]]

\* sqrt(r_diff^2 + theta_diff^2) <= threshold, r_diff in length units and
\* theta_diff in quarter turns: exact when theta_diff = 0, and otherwise the
\* phase term alone (at least QuarterTurnLo) is compared
total_err_le(r_diff, theta_diff, threshold) ==
    /\ ~r_diff.inf
    /\ ~theta_diff.inf
    /\ r_diff.v * r_diff.v
         + (theta_diff.v * QuarterTurnLo) * (theta_diff.v * QuarterTurnLo)
       <= threshold * threshold

evaluate_convergence_no_reset(self) ==
    LET count == IF total_err_le(self.r_diff, self.theta_diff, convergence_threshold)
                 THEN self.convergence_count + 1
                 ELSE self.convergence_count
    IN  [ret |-> count * self.convergence_count_threshold.den
                   >= self.convergence_count_threshold.num,
         self |-> [self EXCEPT !.convergence_count = count]]

evaluate_convergence_strict(self) ==
    LET count == IF total_err_le(self.r_diff, self.theta_diff, convergence_threshold)
                 THEN self.convergence_count + 1
                 ELSE 0
    IN  [ret |-> count * self.convergence_count_threshold.den
                   > self.convergence_count_threshold.num,
         self |-> [self EXCEPT !.convergence_count = count]]

\* ApproachController.evaluate_convergence: ret is the returned flag, self the
\* controller afterwards.  count >= num / den is count * den >= num (den > 0).
evaluate_convergence(self) ==
    LET count == IF total_err_le(self.r_diff, self.theta_diff, convergence_threshold)
                 THEN self.convergence_count + 1
                 ELSE 0
    IN  [ret |-> count * self.convergence_count_threshold.den
                   >= self.convergence_count_threshold.num,
         self |-> [self EXCEPT !.convergence_count = count]]

(***************************************************************************)
(* Values of the variables a specification does not use                    *)
(***************************************************************************)
NoSwimmer == Swimmer(<<0, 0, 0>>, 1).self

NoController == ApproachController(GyreFlow(0, <<0, 0>>), FlowOrientation_CCW, FlowDirection_IN, 1)

NoUpdateCall(self) ==
    [n |-> 0, ok |-> 0, shapeErr |-> 0, exc |-> "none", t |-> 0, vel |-> <<>>,
     contVel |-> <<>>, omitted |-> FALSE, tAfterLast |-> TRUE, pre |-> self]

NoEvalCall(self) ==
    [n |-> 0, lastBad |-> 0, ret |-> FALSE, prevRet |-> FALSE, pre |-> self,
     sinceControl |-> 0, controlled |-> FALSE]

NoControlCall(self) ==
    [n |-> 0, pos |-> <<>>, targ |-> <<>>, pre |-> self, ret |-> <<>>,
     swapped |-> [ret |-> <<>>, self |-> self],
     swapped_negated |-> [ret |-> <<>>, self |-> self]]

NoBatch ==
    [pc |-> "none", ITERS |-> 0, sim_problems |-> <<>>, next |-> 0, running |-> <<>>,
     results |-> <<>>, sim_outputs |-> <<>>, produced |-> <<>>, collected |-> <<>>]

NoSim ==
    [pc |-> "none", problem |-> <<>>, iters |-> 0, flow |-> <<>>, ii |-> 0,
     t |-> [bound |-> FALSE, v |-> 0], result |-> FALSE, control_cost |-> 0,
     pos_modboat |-> <<>>, pos_structure |-> <<>>, vel_modboat |-> <<>>,
     vel_structure |-> <<>>, vel_control |-> <<>>, exc |-> "none", raisedIn |-> "none",
     output |-> <<>>]

(***************************************************************************)
(* SpecSwimmer: one Swimmer under arbitrary calls of update               *)
(* sw_call records the calls made so far: n calls, ok of them successful,  *)
(* shapeErr of them rejected by numpy, the last call's arguments and       *)
(* exception, the Swimmer before the last call (pre), and whether every    *)
(* successful call passed a time after the last recorded one (tAfterLast). *)
(***************************************************************************)
InitialPoses == {<<0, 0, 0>>, <<1, 2, 3>>}

Times == 0..MaxTime

Vels == {<<1, 0>>, <<0, 1, 1>>}

ContVels == {<<1, 0, 1>>, <<1, 1>>}

SwimmerInit ==
    \E pose \in InitialPoses, lifespan \in 1..MaxLifespan :
        /\ boat = Swimmer(pose, lifespan).self
        /\ sw_call = NoUpdateCall(boat)
        /\ strc = NoSwimmer
        /\ cont = NoController
        /\ ev_call = NoEvalCall(NoController)
        /\ ctl_call = NoControlCall(NoController)
        /\ sim = NoSim
        /\ batch = NoBatch

SwUpdate(t, vel, contVel, omitted) ==
    /\ sw_call.n < MaxUpdateCalls
    /\ LET r == update(boat, t, vel, IF omitted THEN update_contVel_default ELSE contVel)
       IN  /\ boat' = r.self
           /\ sw_call' = [n |-> sw_call.n + 1,
                          ok |-> sw_call.ok + (IF r.exc = "none" THEN 1 ELSE 0),
                          shapeErr |-> sw_call.shapeErr + (IF r.exc = "ValueError" THEN 1 ELSE 0),
                          exc |-> r.exc,
                          t |-> t,
                          vel |-> vel,
                          contVel |-> contVel,
                          omitted |-> omitted,
                          tAfterLast |-> sw_call.tAfterLast
                                         /\ (r.exc = "none" => t > last_time(boat)),
                          pre |-> boat]
    /\ UNCHANGED <<strc, cont, ev_call, ctl_call, sim, batch>>

\* s.update(t, vel, contVel)
CallUpdate == \E t \in Times, vel \in Vels, contVel \in ContVels : SwUpdate(t, vel, contVel, FALSE)

\* s.update(t, vel)
CallUpdateDefault == \E t \in Times, vel \in Vels : SwUpdate(t, vel, <<>>, TRUE)

SwimmerNext == CallUpdate \/ CallUpdateDefault

SpecSwimmer == SwimmerInit /\ [][SwimmerNext]_vars

\* component k of a velocity argument, an absent component counting as 0
Comp(v, k) == IF k <= Len(v) THEN v[k] ELSE 0

Advanced == sw_call.n >= 1 /\ sw_call.exc = "none"

\* C1: an Agent of lifespan N >= 1 accepts exactly N-1 advances and raises
\* the exhaustion error on the N-th call: no more than N-1 calls ever
\* succeed, a call raises the exhaustion error exactly when N-1 advances have
\* succeeded before it, and in a sequence of well-formed calls call number k
\* succeeds iff k <= N-1 and raises iff k >= N (so with N = 1 the first raises).
C1_ExhaustionOnNthCall ==
    LET N == boat.lifespan
        okBefore == sw_call.ok - (IF sw_call.exc = "none" THEN 1 ELSE 0)
    IN  /\ sw_call.ok <= N - 1
        /\ sw_call.n >= 1 => (sw_call.exc = "IndexError" <=> okBefore = N - 1)
        /\ (sw_call.n >= 1 /\ sw_call.shapeErr = 0) =>
              /\ sw_call.exc = "none" <=> sw_call.n <= N - 1
              /\ sw_call.exc = "IndexError" <=> sw_call.n >= N

C1_Witness ==
    /\ boat.lifespan >= 2
    /\ sw_call.n = boat.lifespan
    /\ sw_call.shapeErr = 0
    /\ sw_call.exc = "IndexError"

TimestampsIncreasing ==
    \A i \in 1..boat.life : boat.poseHist[i][1] < boat.poseHist[i + 1][1]

\* the last call of update was rejected with the exhaustion error
Rejected == sw_call.n >= 1 /\ sw_call.exc = "IndexError"

\* C21: a call of update rejected with the exhaustion error leaves the Agent
\* as it was before the call (step index, every row of the pose history and
\* the pose returned by get_pose), and once a call has been rejected every
\* later call is rejected too, again without changing the Agent.
C21_RejectionKeepsAgentAndIsTerminal ==
    /\ [](Rejected => /\ boat.life = sw_call.pre.life
                      /\ boat.poseHist = sw_call.pre.poseHist
                      /\ get_pose(boat) = get_pose(sw_call.pre)
                      /\ boat = sw_call.pre)
    /\ [][Rejected => (Rejected' /\ boat' = boat)]_vars

\* two rejected calls after at least one accepted advance
C21_Witness ==
    /\ Rejected
    /\ sw_call.ok >= 1
    /\ sw_call.n - sw_call.ok - sw_call.shapeErr >= 2
    /\ boat.life = boat.lifespan - 1
    /\ boat = sw_call.pre

\* C6 (as claimed): whatever times the caller passes, the timestamps of the
\* history entries 0..step_index are strictly increasing.
C6_Original == TimestampsIncreasing

\* C6 (amended): update records the caller's t unchecked, so the timestamps
\* of entries 0..step_index are strictly increasing provided every successful
\* call passed a t greater than the last recorded timestamp.
C6_TimestampsFollowCaller ==
    /\ Advanced => last_time(boat) = sw_call.t
    /\ sw_call.tAfterLast => TimestampsIncreasing

C6_Witness == boat.life >= 2 /\ sw_call.tAfterLast

\* C7: with lifespan N >= 1 the step index stays in 0..N-1, at most N
\* entries are recorded, and get_pose reads the entry at the step index,
\* which exists, also after an update was rejected for exhaustion.
C7_StepIndexInRange ==
    boat.lifespan >= 1 =>
        /\ 0 <= boat.life
        /\ boat.life <= boat.lifespan - 1
        /\ boat.life + 1 <= boat.lifespan
        /\ Len(boat.poseHist) = boat.lifespan
        /\ boat.life + 1 \in DOMAIN boat.poseHist
        /\ get_pose(boat) = <<boat.poseHist[boat.life + 1][2],
                              boat.poseHist[boat.life + 1][3],
                              boat.poseHist[boat.life + 1][4]>>

C7_Witness ==
    /\ boat.lifespan >= 2
    /\ sw_call.n >= 1
    /\ sw_call.exc = "IndexError"
    /\ boat.life = boat.lifespan - 1

\* C8: a successful update increases the step index by exactly 1, writes the
\* entry at the new index with the passed t, and leaves every other history
\* entry and the lifespan as they were.
C8_UpdateFrame ==
    Advanced =>
        /\ boat.life = sw_call.pre.life + 1
        /\ boat.lifespan = sw_call.pre.lifespan
        /\ Len(boat.poseHist) = Len(sw_call.pre.poseHist)
        /\ boat.poseHist[boat.life + 1][1] = sw_call.t
        /\ \A i \in 1..Len(boat.poseHist) :
              i # boat.life + 1 => boat.poseHist[i] = sw_call.pre.poseHist[i]

C8_Witness == Advanced /\ sw_call.pre.life >= 1 /\ boat.poseHist[1] # ZeroRow

\* C9: after a successful update the current pose is, component by
\* component, last_pose + (vel + contVel) * (t - last_timestamp), an omitted
\* contVel counting as zero.
C9_EulerStep ==
    Advanced =>
        \A k \in 1..3 :
            get_pose(boat)[k] =
                get_pose(sw_call.pre)[k]
                + (Comp(sw_call.vel, k) + Comp(sw_call.contVel, k))
                  * (sw_call.t - last_time(sw_call.pre))

C9_Witness ==
    /\ Advanced
    /\ ~sw_call.omitted
    /\ sw_call.pre.life >= 1
    /\ sw_call.t - last_time(sw_call.pre) = 2

C9_WitnessOmitted ==
    /\ Advanced
    /\ sw_call.omitted
    /\ sw_call.t - last_time(sw_call.pre) # 0

TwoComponentControl == sw_call.n >= 1 /\ ~sw_call.omitted /\ Len(sw_call.contVel) = 2

\* C10 (as claimed): an update with a two-component control velocity, made
\* before exhaustion, succeeds and changes theta by the flow's rate only.
C10_Original ==
    (TwoComponentControl /\ sw_call.pre.life < sw_call.pre.lifespan - 1) =>
        /\ sw_call.exc = "none"
        /\ get_pose(boat)[3] = get_pose(sw_call.pre)[3]
              + Comp(sw_call.vel, 3) * (sw_call.t - last_time(sw_call.pre))

\* C10 (amended): only the flow velocity is padded.  A two-component vel
\* counts as having zero angular rate, theta changing by the control's rate
\* alone; an update with a two-component contVel never succeeds: before
\* exhaustion it fails in the sum vel + contVel and the Swimmer is unchanged.
C10_OnlyFlowVelocityPadded ==
    /\ (Advanced /\ Len(sw_call.vel) = 2) =>
          get_pose(boat)[3] = get_pose(sw_call.pre)[3]
              + Comp(sw_call.contVel, 3) * (sw_call.t - last_time(sw_call.pre))
    /\ TwoComponentControl =>
          /\ boat = sw_call.pre
          /\ sw_call.exc = (IF sw_call.pre.life < sw_call.pre.lifespan - 1
                            THEN "ValueError" ELSE "IndexError")

C10_Witness ==
    /\ TwoComponentControl
    /\ sw_call.exc = "ValueError"
    /\ Len(sw_call.vel) = 2

(***************************************************************************)
(* SpecCont: one ApproachController under arbitrary calls of               *)
(* get_control_vel and evaluate_convergence.  ev_call numbers the calls of *)
(* evaluate_convergence 1, 2, ...: n is the number made, lastBad the       *)
(* number of the latest one whose total error exceeded the threshold (0 if *)
(* none), ret the last returned flag, prevRet the one before, pre the      *)
(* controller before the last call, sinceControl the number of calls made  *)
(* since the last get_control_vel (2 standing for two or more), controlled *)
(* whether get_control_vel was called at all.                              *)
(***************************************************************************)
\* <<pos, targ>> of the calls of get_control_vel: no error, a radius error
\* of exactly the threshold (either sign), a radius error above it, and a
\* phase error of a quarter turn with no radius error
ControlArgs ==
    {<<<<200, 0>>, <<200, 0>>>>,
     <<<<100, 0>>, <<200, 0>>>>,
     <<<<300, 0>>, <<200, 0>>>>,
     <<<<400, 0>>, <<200, 0>>>>,
     <<<<0, 200>>, <<200, 0>>>>}

TimeSteps == {1, 3, 10, 40}

StillFlow == GyreFlow(0, <<0, 0>>)

ContInit ==
    \E time_step \in TimeSteps, flow_ori \in FlowOrientation, flow_dir \in FlowDirection :
        /\ cont = ApproachController(StillFlow, flow_ori, flow_dir, time_step)
        /\ ev_call = NoEvalCall(cont)
        /\ boat = NoSwimmer
        /\ strc = NoSwimmer
        /\ sw_call = NoUpdateCall(NoSwimmer)
        /\ ctl_call = NoControlCall(NoController)
        /\ sim = NoSim
        /\ batch = NoBatch

time_step_of(c) == c.convergence_count_threshold.den

\* the recorded errors are finite, the phase error is zero and the radius
\* error is at most the threshold in size: total error <= 0.01
ErrWithin(c) ==
    /\ ~c.r_diff.inf
    /\ ~c.theta_diff.inf
    /\ c.theta_diff.v = 0
    /\ c.r_diff.v <= convergence_threshold
    /\ -c.r_diff.v <= convergence_threshold

\* cont.get_control_vel(pos, targ)
CallGetControlVel ==
    \E args \in ControlArgs :
        /\ cont' = get_control_vel(cont, args[1], args[2]).self
        /\ ev_call' = [ev_call EXCEPT !.sinceControl = 0, !.controlled = TRUE]
        /\ UNCHANGED <<boat, strc, sw_call, ctl_call, sim, batch>>

\* cont.evaluate_convergence()
CallEvaluateConvergence ==
    /\ ev_call.n * time_step_of(cont) < time_to_convergence + MaxExtraCalls * time_step_of(cont)
    /\ LET r == evaluate_convergence(cont)
       IN  /\ cont' = r.self
           /\ ev_call' = [n |-> ev_call.n + 1,
                          lastBad |-> IF ErrWithin(cont) THEN ev_call.lastBad ELSE ev_call.n + 1,
                          ret |-> r.ret,
                          prevRet |-> ev_call.ret,
                          pre |-> cont,
                          sinceControl |-> IF ev_call.sinceControl = 0 THEN 1 ELSE 2,
                          controlled |-> ev_call.controlled]
    /\ UNCHANGED <<boat, strc, sw_call, ctl_call, sim, batch>>

ContNext == CallGetControlVel \/ CallEvaluateConvergence

SpecCont == ContInit /\ [][ContNext]_vars

\* length of the run of in-tolerance calls that ends with the last call
RunLength == ev_call.n - ev_call.lastBad

\* C2: evaluate_convergence returns true iff the call ends a run of at
\* least time_to_convergence / dt consecutive calls with total error <= 0.01;
\* with dt = 0.1 and only in-tolerance calls on a fresh controller it is
\* false on calls 1..19 and true from call 20.
C2_TrueIffDwellReached ==
    ev_call.n >= 1 =>
        /\ ev_call.ret <=> RunLength * time_step_of(cont) >= time_to_convergence
        /\ (time_step_of(cont) = 1 /\ ev_call.lastBad = 0) =>
              (ev_call.ret <=> ev_call.n >= 20)

C2_Witness ==
    /\ time_step_of(cont) = 1
    /\ ev_call.n = 20
    /\ ev_call.lastBad = 0
    /\ cont.r_diff = Finite(0)
    /\ cont.theta_diff = Finite(0)
    /\ ev_call.ret

\* C3: an evaluation whose total error exceeds the threshold sets the dwell
\* counter to 0 whatever it was and returns false, an in-tolerance one adds
\* exactly 1, and after an out-of-tolerance call true is returned only once
\* a full time_to_convergence / dt in-tolerance calls have followed it.
C3_ResetOnError ==
    ev_call.n >= 1 =>
        /\ ~ErrWithin(ev_call.pre) => (cont.convergence_count = 0 /\ ~ev_call.ret)
        /\ ErrWithin(ev_call.pre) =>
              cont.convergence_count = ev_call.pre.convergence_count + 1
        /\ (ev_call.lastBad >= 1 /\ ev_call.ret) =>
              RunLength * time_step_of(cont) >= time_to_convergence

C3_Witness ==
    /\ ev_call.n >= 1
    /\ ~ErrWithin(ev_call.pre)
    /\ ~ev_call.pre.r_diff.inf
    /\ ev_call.pre.convergence_count >= 2
    /\ cont.convergence_count = 0

C3_WitnessRecovered ==
    /\ ev_call.lastBad >= 1
    /\ ev_call.ret
    /\ time_step_of(cont) = 10

\* C12: on a freshly constructed controller, before any get_control_vel
\* call, every evaluate_convergence call returns false and the dwell counter
\* stays 0, the recorded errors being infinite.
C12_FalseBeforeControl ==
    ~ev_call.controlled =>
        /\ cont.r_diff = Inf
        /\ cont.theta_diff = Inf
        /\ cont.convergence_count = 0
        /\ ~ev_call.ret

C12_Witness == ~ev_call.controlled /\ ev_call.n >= 3 /\ time_step_of(cont) = 40

RepeatedEvaluation == ev_call.sinceControl = 2

\* C16 (as claimed): of two evaluate_convergence calls with no
\* get_control_vel call between them the second returns what the first
\* returned and leaves the controller as the first left it.
C16_Original ==
    RepeatedEvaluation => (ev_call.ret = ev_call.prevRet /\ cont = ev_call.pre)

\* C16 (amended): evaluate_convergence reads the errors recorded by
\* get_control_vel and its own dwell counter and changes the counter only.
\* Repeated without a get_control_vel call between, an in-tolerance call adds
\* 1 to the counter again (so false may turn to true, never true to false),
\* while an out-of-tolerance call returns false again and leaves the
\* controller as the call before left it.
C16_CounterAdvancesOnRepeat ==
    ev_call.sinceControl >= 1 =>
        /\ cont = [ev_call.pre EXCEPT !.convergence_count = cont.convergence_count]
        /\ RepeatedEvaluation =>
              IF ErrWithin(ev_call.pre)
              THEN /\ cont.convergence_count = ev_call.pre.convergence_count + 1
                   /\ ev_call.prevRet => ev_call.ret
              ELSE /\ cont = ev_call.pre
                   /\ ~ev_call.ret
                   /\ ~ev_call.prevRet

C16_Witness ==
    /\ RepeatedEvaluation
    /\ ErrWithin(ev_call.pre)
    /\ ~ev_call.prevRet
    /\ ev_call.ret

C16_WitnessOutOfTolerance ==
    /\ RepeatedEvaluation
    /\ ev_call.controlled
    /\ ~ErrWithin(ev_call.pre)

(***************************************************************************)
(* Spec: simulation.run_simulation on one SimulationProblem.               *)
(* sim holds the locals of run_simulation and its position pc:             *)
(*   "start"  before line 369          "loop"   at the head of the for     *)
(*   "break"  after the break          "done"   returned (output)          *)
(*   "raised" left by an exception (exc, raised in raisedIn)               *)
(* ii is the last value of the loop variable (0 before the first           *)
(* iteration); t is unbound until the first iteration assigns it.          *)
(***************************************************************************)
\* np.linalg.norm of a vector with integer norm
norm(v) ==
    LET sq == v[1] * v[1] + v[2] * v[2] + v[3] * v[3]
    IN  CHOOSE n \in 0..sq : n * n = sq

TotalTimes == {10 * k : k \in 0..MaxTotalTime}

SimTimeSteps == {5, 10, 20}

ModboatStarts == {<<300, 0, 0>>, <<250, 0, 1>>, <<0, 300, 0>>, <<-100, 0, 0>>}

StructStarts == {<<200, 0, 0>>, <<0, 200, 1>>}

\* flow bias along the x axis, for starts on the x axis
Noises == {<<0, 0>>, <<5, 0>>}

SimulationProblems ==
    {p \in [total_time_s : TotalTimes, timestep_s : SimTimeSteps,
            flow_ori : FlowOrientation, flow_dir : FlowDirection, noise : Noises,
            modboat_start_pos : ModboatStarts, struct_start_pos : StructStarts] :
        p.noise # <<0, 0>> => (p.modboat_start_pos[2] = 0 /\ p.struct_start_pos[2] = 0)}

SimInit ==
    \E p \in SimulationProblems :
        /\ sim = [NoSim EXCEPT !.pc = "start", !.problem = p]
        /\ boat = NoSwimmer
        /\ strc = NoSwimmer
        /\ cont = NoController
        /\ sw_call = NoUpdateCall(NoSwimmer)
        /\ ev_call = NoEvalCall(NoController)
        /\ ctl_call = NoControlCall(NoController)
        /\ batch = NoBatch

\* lines 369-386: set-up
SimSetup ==
    /\ sim.pc = "start"
    /\ LET p == sim.problem
           iters == p.total_time_s \div p.timestep_s
           b == Swimmer(p.modboat_start_pos, iters)
           s == Swimmer(p.struct_start_pos, iters)
           flow == GyreFlow(0, p.noise)
       IN  IF b.exc # "none"
           THEN /\ sim' = [sim EXCEPT !.pc = "raised", !.iters = iters,
                                      !.exc = b.exc, !.raisedIn = "Swimmer.__init__"]
                /\ UNCHANGED <<boat, strc, cont>>
           ELSE /\ boat' = b.self
                /\ strc' = s.self
                /\ cont' = ApproachController(flow, p.flow_ori, p.flow_dir, p.timestep_s)
                /\ sim' = [sim EXCEPT !.pc = "loop", !.iters = iters, !.flow = flow,
                                      !.ii = 0, !.result = FALSE, !.control_cost = 0]
    /\ UNCHANGED <<sw_call, ev_call, ctl_call, batch>>

SimIterate_evaluates_first ==
    /\ sim.pc = "loop"
    /\ sim.ii + 1 < sim.iters
    /\ LET ii == sim.ii + 1
           t == sim.problem.timestep_s * ii
           pos_modboat == SubSeq(get_pose(boat), 1, 2)
           pos_structure == SubSeq(get_pose(strc), 1, 2)
           vel_modboat == flow_func(sim.flow, pos_modboat)
           vel_structure == flow_func(sim.flow, pos_structure)
           e == evaluate_convergence(cont)
           c == get_control_vel(e.self, pos_modboat, pos_structure)
           ub == update(boat, t, vel_modboat, c.ret)
           us == update(strc, t, vel_structure, update_contVel_default)
           new_cost == norm(c.ret) * sim.problem.timestep_s
           locals == [sim EXCEPT !.ii = ii, !.t = [bound |-> TRUE, v |-> t],
                                 !.pos_modboat = pos_modboat,
                                 !.pos_structure = pos_structure,
                                 !.vel_modboat = vel_modboat,
                                 !.vel_structure = vel_structure,
                                 !.vel_control = c.ret]
       IN  IF ub.exc # "none"
           THEN /\ sim' = [locals EXCEPT !.pc = "raised", !.exc = ub.exc,
                                         !.raisedIn = "Swimmer.update"]
                /\ cont' = c.self
                /\ UNCHANGED <<boat, strc>>
           ELSE IF us.exc # "none"
           THEN /\ sim' = [locals EXCEPT !.pc = "raised", !.exc = us.exc,
                                         !.raisedIn = "Swimmer.update"]
                /\ cont' = c.self
                /\ boat' = ub.self
                /\ UNCHANGED strc
           ELSE /\ boat' = ub.self
                /\ strc' = us.self
                /\ cont' = c.self
                /\ sim' = [locals EXCEPT !.control_cost = sim.control_cost + new_cost,
                                         !.result = IF e.ret THEN TRUE ELSE sim.result,
                                         !.pc = IF e.ret THEN "break" ELSE "loop"]
    /\ UNCHANGED <<sw_call, ev_call, ctl_call, batch>>

\* lines 389-409: one iteration of for ii in range(1, iters)
SimIterate ==
    /\ sim.pc = "loop"
    /\ sim.ii + 1 < sim.iters
    /\ LET ii == sim.ii + 1
           t == sim.problem.timestep_s * ii
           pos_modboat == SubSeq(get_pose(boat), 1, 2)
           pos_structure == SubSeq(get_pose(strc), 1, 2)
           vel_modboat == flow_func(sim.flow, pos_modboat)
           vel_structure == flow_func(sim.flow, pos_structure)
           c == get_control_vel(cont, pos_modboat, pos_structure)
           ub == update(boat, t, vel_modboat, c.ret)
           us == update(strc, t, vel_structure, update_contVel_default)
           new_cost == norm(c.ret) * sim.problem.timestep_s
           e == evaluate_convergence(c.self)
           locals == [sim EXCEPT !.ii = ii, !.t = [bound |-> TRUE, v |-> t],
                                 !.pos_modboat = pos_modboat,
                                 !.pos_structure = pos_structure,
                                 !.vel_modboat = vel_modboat,
                                 !.vel_structure = vel_structure,
                                 !.vel_control = c.ret]
       IN  IF ub.exc # "none"
           THEN /\ sim' = [locals EXCEPT !.pc = "raised", !.exc = ub.exc,
                                         !.raisedIn = "Swimmer.update"]
                /\ cont' = c.self
                /\ UNCHANGED <<boat, strc>>
           ELSE IF us.exc # "none"
           THEN /\ sim' = [locals EXCEPT !.pc = "raised", !.exc = us.exc,
                                         !.raisedIn = "Swimmer.update"]
                /\ cont' = c.self
                /\ boat' = ub.self
                /\ UNCHANGED strc
           ELSE /\ boat' = ub.self
                /\ strc' = us.self
                /\ cont' = e.self
                /\ sim' = [locals EXCEPT !.control_cost = sim.control_cost + new_cost,
                                         !.result = IF e.ret THEN TRUE ELSE sim.result,
                                         !.pc = IF e.ret THEN "break" ELSE "loop"]
    /\ UNCHANGED <<sw_call, ev_call, ctl_call, batch>>

\* lines 411-417: the loop is over (range exhausted or break); build the output
SimReturn ==
    /\ \/ sim.pc = "break"
       \/ sim.pc = "loop" /\ sim.ii + 1 >= sim.iters
    /\ sim' = IF sim.t.bound
              THEN [sim EXCEPT !.pc = "done",
                               !.output = [success |-> sim.result,
                                           success_time |-> sim.t.v,
                                           control_cost |-> sim.control_cost]]
              ELSE [sim EXCEPT !.pc = "raised", !.exc = "UnboundLocalError",
                               !.raisedIn = "run_simulation"]
    /\ UNCHANGED <<boat, strc, cont, sw_call, ev_call, ctl_call, batch>>

Next == SimSetup \/ SimIterate \/ SimReturn

Spec == SimInit /\ [][Next]_vars

Ended == sim.pc \in {"done", "raised"}

ExhaustionRaised == sim.pc = "raised" /\ sim.raisedIn = "Swimmer.update" /\ sim.exc = "IndexError"

ConvergedInBudget ==
    /\ sim.pc = "done"
    /\ sim.result
    /\ sim.output.success
    /\ 1 <= sim.ii
    /\ sim.ii <= sim.iters - 1

\* C4 (as claimed): a run ends only with has_converged true before the step
\* budget is used up, or with the exhaustion error raised by update.
C4_Original == Ended => (ConvergedInBudget \/ ExhaustionRaised)

\* C4 (amended): a run ends in one of these ways and no other: converged
\* within the budget (success true); the loop used up its iters - 1
\* iterations without convergence and the run returns success false; or, with
\* a budget of fewer than two steps, an error before any output (iters = 0:
\* IndexError in the Swimmer constructor, iters = 1: t unbound at the return).
\* The exhaustion error of update is never raised by a run.
C4_RunOutcomes ==
    /\ ~ExhaustionRaised
    /\ Ended =>
          \/ ConvergedInBudget
          \/ /\ sim.pc = "done"
             /\ ~sim.result
             /\ ~sim.output.success
             /\ sim.iters >= 2
             /\ sim.ii = sim.iters - 1
          \/ /\ sim.pc = "raised"
             /\ sim.iters = 0
             /\ sim.exc = "IndexError"
             /\ sim.raisedIn = "Swimmer.__init__"
          \/ /\ sim.pc = "raised"
             /\ sim.iters = 1
             /\ sim.exc = "UnboundLocalError"
             /\ sim.raisedIn = "run_simulation"

C4_Witness ==
    /\ sim.pc = "done"
    /\ ~sim.output.success
    /\ sim.iters >= 3
    /\ sim.ii = sim.iters - 1

C4_WitnessConverged == ConvergedInBudget /\ sim.ii < sim.iters - 1

ControlComputed == sim.pc \in {"loop", "break", "done"} /\ sim.ii >= 1

\* heading of the mobile agent's pose that the last iteration read
HeadingRead == boat.poseHist[sim.ii][4]

\* C5 (as claimed): the control velocity is thrust_sign * speed *
\* (cos h, sin h, 0) with h the heading of the mobile agent's pose.
C5_Original ==
    ControlComputed =>
        \E sign \in {-1, 1} :
            sim.vel_control = <<sign * vel_from_thrusters * CosQ(HeadingRead),
                                sign * vel_from_thrusters * SinQ(HeadingRead), 0>>

\* C5 (amended): the control velocity is thrust_sign * speed *
\* (cos h, sin h, 0) with h the phase angle of the mobile position about the
\* flow centre, i.e. it points along the radial line through the mobile
\* position (along +x at the centre itself), whatever the pose's heading.
C5_ThrustAlongPhaseAngle ==
    ControlComputed =>
        LET x == sim.pos_modboat[1]
            y == sim.pos_modboat[2]
            r == (IF x >= 0 THEN x ELSE -x) + (IF y >= 0 THEN y ELSE -y)
        IN  \E sign \in {-1, 1} :
                /\ sim.vel_control[3] = 0
                /\ r > 0 => /\ sim.vel_control[1] * r = sign * vel_from_thrusters * x
                            /\ sim.vel_control[2] * r = sign * vel_from_thrusters * y
                /\ r = 0 => /\ sim.vel_control[1] = sign * vel_from_thrusters
                            /\ sim.vel_control[2] = 0

C5_Witness ==
    /\ ControlComputed
    /\ sim.pos_modboat[1] = 0
    /\ sim.pos_modboat[2] > 0
    /\ HeadingRead = 0
    /\ sim.vel_control[2] # 0

InLoop == sim.pc \in {"loop", "break", "done"}

\* C11: throughout a run the heading of every recorded pose of the mobile
\* and of the target agent is that agent's initial heading.
C11_HeadingFixed ==
    InLoop =>
        /\ \A i \in 1..(boat.life + 1) :
              boat.poseHist[i][4] = sim.problem.modboat_start_pos[3]
        /\ \A i \in 1..(strc.life + 1) :
              strc.poseHist[i][4] = sim.problem.struct_start_pos[3]

C11_Witness ==
    /\ InLoop
    /\ boat.life >= 2
    /\ strc.life >= 2
    /\ sim.problem.modboat_start_pos[3] = 1
    /\ sim.problem.struct_start_pos[3] = 1

\* the errors of the poses in row j of the two pose histories (the poses
\* read by loop iteration j) are within the convergence tolerance
StepWithin(j) ==
    LET mob == get_state(sim.flow, SubSeq(boat.poseHist[j], 2, 3))
        tgt == get_state(sim.flow, SubSeq(strc.poseHist[j], 2, 3))
    IN  /\ wrap_to_pi(tgt[2] - mob[2]) = 0
        /\ tgt[1] - mob[1] <= convergence_threshold
        /\ mob[1] - tgt[1] <= convergence_threshold

\* number of the latest iterations, up to iteration ii, that all read poses
\* within the tolerance
TrailingWithin(ii) ==
    CHOOSE k \in 0..ii :
        /\ \A j \in (ii - k + 1)..ii : StepWithin(j)
        /\ k = ii \/ ~StepWithin(ii - k)

\* C17: after every loop iteration ii of a run, the positions the iteration
\* read are those of row ii-1 of both pose histories (before the advance),
\* the control velocity and the controller's recorded errors are those of
\* these positions, both agents stand at step ii and time t with the mobile
\* agent moved by flow plus control velocity, and the dwell counter has been
\* advanced or reset exactly once per iteration on the errors of the poses
\* that iteration read, the loop being left exactly when it reaches the
\* threshold.
C17_StepOrder ==
    (InLoop /\ sim.ii >= 1) =>
        LET ii == sim.ii
            mob == get_state(sim.flow, sim.pos_modboat)
            tgt == get_state(sim.flow, sim.pos_structure)
            dt == sim.t.v - boat.poseHist[ii][1]
        IN  /\ sim.pos_modboat = SubSeq(boat.poseHist[ii], 2, 3)
            /\ sim.pos_structure = SubSeq(strc.poseHist[ii], 2, 3)
            /\ cont.r_diff = Finite(tgt[1] - mob[1])
            /\ cont.theta_diff = Finite(wrap_to_pi(tgt[2] - mob[2]) * cont.flow_ori)
            /\ \E sign \in {-1, 1} :
                  sim.vel_control = <<sign * vel_from_thrusters * CosQ(mob[2]),
                                      sign * vel_from_thrusters * SinQ(mob[2]), 0>>
            /\ boat.life = ii
            /\ strc.life = ii
            /\ sim.t.v = sim.problem.timestep_s * ii
            /\ last_time(boat) = sim.t.v
            /\ last_time(strc) = sim.t.v
            /\ \A k \in 1..2 :
                  /\ get_pose(boat)[k] = sim.pos_modboat[k]
                                         + (sim.vel_modboat[k] + sim.vel_control[k]) * dt
                  /\ get_pose(strc)[k] = sim.pos_structure[k] + sim.vel_structure[k] * dt
            /\ cont.convergence_count = TrailingWithin(ii)
            /\ sim.result <=> (cont.convergence_count * sim.problem.timestep_s
                               >= time_to_convergence)
            /\ sim.pc = "loop" => ~sim.result

\* an iteration that read poses within the tolerance after one that did not
C17_Witness ==
    /\ InLoop
    /\ sim.ii >= 2
    /\ ~StepWithin(sim.ii - 1)
    /\ StepWithin(sim.ii)
    /\ cont.convergence_count = 1
    /\ get_pose(boat) # SubSeq(boat.poseHist[sim.ii], 2, 4)

\* C18: a run stops at the first iteration at which has_converged returns
\* true (the loop is still running only while it has not), the reported
\* success flag is true exactly when has_converged returned true, the
\* reported success time is the timestamp of the last recorded pose of both
\* agents, and a run whose budget gives no loop iteration (iters < 2) still
\* returns an output.
C18_StopsAtConvergenceAndReturns ==
    /\ (InLoop /\ sim.ii >= 1) =>
          /\ sim.pc = "loop" =>
                cont.convergence_count * sim.problem.timestep_s < time_to_convergence
          /\ sim.result <=> (cont.convergence_count * sim.problem.timestep_s
                             >= time_to_convergence)
          /\ boat.life = sim.ii
          /\ strc.life = sim.ii
    /\ sim.pc = "done" =>
          /\ sim.output.success = sim.result
          /\ sim.output.success_time = last_time(boat)
          /\ sim.output.success_time = last_time(strc)
    /\ (Ended /\ sim.iters < 2) => sim.pc = "done"

\* C19: in a run with iters >= 1, after loop iteration ii both agents have
\* step index ii and last timestamp timestep * ii, the step index never
\* exceeds iters - 1 = lifespan - 1, and update never raises the exhaustion
\* error.
C19_AgentsInStepWithinLifespan ==
    (sim.iters >= 1 /\ sim.pc # "start") =>
        /\ boat.life = sim.ii
        /\ strc.life = sim.ii
        /\ last_time(boat) = sim.problem.timestep_s * sim.ii
        /\ last_time(strc) = sim.problem.timestep_s * sim.ii
        /\ sim.ii <= sim.iters - 1
        /\ boat.lifespan = sim.iters
        /\ strc.lifespan = sim.iters
        /\ ~ExhaustionRaised

\* the loop has used its whole budget without convergence
C19_Witness ==
    /\ sim.pc = "loop"
    /\ sim.iters >= 3
    /\ sim.ii = sim.iters - 1
    /\ boat.life = boat.lifespan - 1
    /\ strc.life = strc.lifespan - 1

\* C20: the control velocity of every iteration has planar magnitude
\* vel_from_thrusters and angular component 0, whatever the errors, and the
\* control cost after k iterations is k * vel_from_thrusters * timestep.
C20_FixedThrust ==
    /\ ControlComputed =>
          /\ sim.vel_control[1] * sim.vel_control[1] + sim.vel_control[2] * sim.vel_control[2]
                = vel_from_thrusters * vel_from_thrusters
          /\ sim.vel_control[3] = 0
    /\ InLoop => sim.control_cost = sim.ii * vel_from_thrusters * sim.problem.timestep_s
    /\ sim.pc = "done" => sim.output.control_cost = sim.control_cost

\* an iteration whose radius and phase errors are exactly zero
C20_Witness ==
    /\ ControlComputed
    /\ sim.ii >= 2
    /\ cont.r_diff = Finite(0)
    /\ cont.theta_diff = Finite(0)
    /\ sim.vel_control # <<0, 0, 0>>
    /\ sim.control_cost = sim.ii * vel_from_thrusters * sim.problem.timestep_s

(***************************************************************************)
(* SpecBatch: the parallel batches run_simulation_many_rankine_vortex and  *)
(* run_simulation_many_rankine_vortex_changing_radius (the former is the   *)
(* latter with a single radius).  The pool's processes take the problems   *)
(* in list order and run_simulation on each; imap_unordered hands the      *)
(* outputs to the parent in the order the runs finish, and the parent      *)
(* writes one row of sim_outputs for each.                                 *)
(*   sim_problems  the assembled problems, in list order                   *)
(*   next          position of the next problem a process will take        *)
(*   running       per process, the position of its problem (0: idle)      *)
(*   results       outputs finished and not yet seen by the parent         *)
(*   sim_outputs   the rows; row r of the code is sim_outputs[r + 1]       *)
(*   produced      per position, the row values its run produced           *)
(*   collected     the id_numbers in the order the parent saw them         *)
(***************************************************************************)
problem_id_without_offset(r_count, ITERS, ii) == ii

\* id_number of the ii-th problem of the radius numbered r_count
problem_id(r_count, ITERS, ii) == r_count * ITERS + ii

\* the list built by the assembly loops: for each radius, ii = 1..ITERS
assemble(ITERS, n_radii) ==
    [j \in 1..(ITERS * n_radii) |->
        [id_number |-> problem_id((j - 1) \div ITERS, ITERS, ((j - 1) % ITERS) + 1),
         radius |-> (j - 1) \div ITERS]]

\* (success, success_time) a run may return
RunResults == {<<TRUE, 1>>, <<FALSE, 2>>, <<TRUE, 3>>}

\* a row as stored in the float array: True is 1.0, False 0.0
output_row(simulation_output) ==
    <<IF simulation_output.success THEN 1 ELSE 0, simulation_output.success_time>>

\* numpy row index: a negative index counts from the end
row_index(i, n_rows) == IF i < 0 THEN i + n_rows ELSE i

BatchInit ==
    \E ITERS \in 1..MaxRuns, n_radii \in 1..MaxRadii, processes \in 1..MaxProcesses :
        /\ batch = [pc |-> "pool",
                    ITERS |-> ITERS,
                    sim_problems |-> assemble(ITERS, n_radii),
                    next |-> 1,
                    running |-> [w \in 1..processes |-> 0],
                    results |-> <<>>,
                    sim_outputs |-> [r \in 1..(ITERS * n_radii) |-> <<0, 0>>],
                    produced |-> [j \in 1..(ITERS * n_radii) |-> <<>>],
                    collected |-> <<>>]
        /\ boat = NoSwimmer
        /\ strc = NoSwimmer
        /\ cont = NoController
        /\ sw_call = NoUpdateCall(NoSwimmer)
        /\ ev_call = NoEvalCall(NoController)
        /\ ctl_call = NoControlCall(NoController)
        /\ sim = NoSim

\* an idle process takes the next problem of the list
PoolDispatch ==
    /\ batch.pc = "pool"
    /\ batch.next <= Len(batch.sim_problems)
    /\ \E w \in DOMAIN batch.running :
          /\ batch.running[w] = 0
          /\ batch' = [batch EXCEPT !.running[w] = batch.next, !.next = batch.next + 1]
    /\ UNCHANGED <<boat, strc, cont, sw_call, ev_call, ctl_call, sim>>

\* a process finishes run_simulation on its problem; the output carries the
\* problem's id_number
PoolFinish ==
    /\ batch.pc = "pool"
    /\ \E w \in DOMAIN batch.running, res \in RunResults :
          /\ batch.running[w] # 0
          /\ LET j == batch.running[w]
                 simulation_output == [id_number |-> batch.sim_problems[j].id_number,
                                       success |-> res[1],
                                       success_time |-> res[2]]
             IN  batch' = [batch EXCEPT !.running[w] = 0,
                                        !.results = Append(batch.results, simulation_output),
                                        !.produced[j] = output_row(simulation_output)]
    /\ UNCHANGED <<boat, strc, cont, sw_call, ev_call, ctl_call, sim>>

\* one turn of the parent's for loop over the results
Collect ==
    /\ batch.pc = "pool"
    /\ batch.results # <<>>
    /\ LET simulation_output == Head(batch.results)
           r == row_index(simulation_output.id_number - 1, Len(batch.sim_outputs))
       IN  batch' = [batch EXCEPT !.results = Tail(batch.results),
                                  !.sim_outputs[r + 1] = output_row(simulation_output),
                                  !.collected = Append(batch.collected,
                                                       simulation_output.id_number)]
    /\ UNCHANGED <<boat, strc, cont, sw_call, ev_call, ctl_call, sim>>

BatchNext == PoolDispatch \/ PoolFinish \/ Collect

SpecBatch == BatchInit /\ [][BatchNext]_vars

NumberOfRuns == Len(batch.sim_problems)

\* the run at position j of the list has been seen by the parent
Collected(j) ==
    \E c \in DOMAIN batch.collected : batch.collected[c] = batch.sim_problems[j].id_number

\* C13: the run identifiers are distinct and lie in 1..number of runs, and
\* whatever the order in which the runs finish, row k-1 of sim_outputs holds
\* the success flag and time produced by the run with id_number k once the
\* parent has seen that run, and is untouched (zero) before.
C13_RowsKeyedById ==
    /\ \A i, j \in DOMAIN batch.sim_problems :
          i # j => batch.sim_problems[i].id_number # batch.sim_problems[j].id_number
    /\ \A j \in DOMAIN batch.sim_problems :
          LET k == batch.sim_problems[j].id_number
          IN  /\ k \in 1..NumberOfRuns
              /\ batch.sim_outputs[k] = (IF Collected(j) THEN batch.produced[j] ELSE <<0, 0>>)

\* all runs seen, the last run of the list seen first
C13_Witness ==
    /\ NumberOfRuns >= 3
    /\ Len(batch.collected) = NumberOfRuns
    /\ batch.collected[1] > batch.collected[2]
    /\ batch.sim_outputs[1] # batch.sim_outputs[2]

(***************************************************************************)
(* SpecControl: get_control_vel as a function of its inputs.  A controller *)
(* of any orientation and direction is asked for the control velocity at   *)
(* pairs of positions; each call is also made on the controller with the   *)
(* enumeration values exchanged, with and without the gain negated.        *)
(***************************************************************************)
\* the controller with IN exchanged for OUT and CW for CCW
swap_flow(self) == [self EXCEPT !.flow_ori = -self.flow_ori, !.flow_dir = -self.flow_dir]

\* the controller with the gain Kp negated
negate_gain(self) == [self EXCEPT !.Kp = [num |-> -self.Kp.num, den |-> self.Kp.den]]

ControlPoints ==
    {<<200, 0>>, <<0, 200>>, <<-200, 0>>, <<0, -100>>, <<8054, 0>>, <<8053, 0>>}

ControlInit ==
    \E flow_ori \in FlowOrientation, flow_dir \in FlowDirection :
        /\ cont = ApproachController(StillFlow, flow_ori, flow_dir, 10)
        /\ ctl_call = NoControlCall(cont)
        /\ boat = NoSwimmer
        /\ strc = NoSwimmer
        /\ sw_call = NoUpdateCall(NoSwimmer)
        /\ ev_call = NoEvalCall(NoController)
        /\ sim = NoSim
        /\ batch = NoBatch

ControlCall ==
    /\ ctl_call.n < MaxControlCalls
    /\ \E pos \in ControlPoints, targ \in ControlPoints :
          LET r == get_control_vel(cont, pos, targ)
          IN  /\ cont' = r.self
              /\ ctl_call' = [n |-> ctl_call.n + 1,
                              pos |-> pos,
                              targ |-> targ,
                              pre |-> cont,
                              ret |-> r.ret,
                              swapped |-> get_control_vel(swap_flow(cont), pos, targ),
                              swapped_negated |->
                                  get_control_vel(negate_gain(swap_flow(cont)), pos, targ)]
    /\ UNCHANGED <<boat, strc, sw_call, ev_call, sim, batch>>

ControlNext == ControlCall

SpecControl == ControlInit /\ [][ControlNext]_vars

\* the recorded errors of other are those of self with the phase error negated
SamePhaseNegated(self, other) ==
    /\ other.r_diff = self.r_diff
    /\ other.theta_diff = Finite(-self.theta_diff.v)

\* C14 as stated: exchanging IN/OUT and CW/CCW and negating Kp gives the same
\* control velocity for every pair of positions, only the recorded phase
\* error changing sign.
C14_Original ==
    ctl_call.n >= 1 =>
        /\ ctl_call.swapped_negated.ret = ctl_call.ret
        /\ SamePhaseNegated(cont, ctl_call.swapped_negated.self)

\* C14: exchanging IN/OUT and CW/CCW with the gain Kp unchanged gives the same
\* control velocity and radius error for every pair of positions, the
\* recorded phase error changing sign.
C14_SwapKeepsControl ==
    ctl_call.n >= 1 =>
        /\ ctl_call.swapped.ret = ctl_call.ret
        /\ SamePhaseNegated(cont, ctl_call.swapped.self)

\* a call with a phase error, where negating the gain as well turns the thrust
C14_Witness ==
    /\ ctl_call.n >= 1
    /\ cont.theta_diff.v # 0
    /\ ctl_call.swapped.ret = ctl_call.ret
    /\ ctl_call.swapped_negated.ret # ctl_call.ret

\* sign of r_target + Kp * err * direction_sign - r_mobile for Kp = 0.5, the
\* radii in units of 1e-4 m and err in quarter turns: (pi / 4) * 1e4 lies
\* strictly between 7853.9816 and 7853.9817
r_des_above(r_target, r_mobile, err, direction_sign) ==
    (r_target - r_mobile) * 10000 + err * direction_sign * 78539816 > 0

\* C15: the thrust sign is +1 exactly when r_des > r_mobile and -1 otherwise,
\* the tie included, with r_des = r_target + Kp * err * direction_sign and
\* err = wrap_to_pi(theta_target - theta_mobile) * orientation_sign; the
\* recorded errors are r_target - r_mobile and err.
C15_ThrustSign ==
    ctl_call.n >= 1 =>
        LET mob == get_state(cont.flow_model, ctl_call.pos)
            tgt == get_state(cont.flow_model, ctl_call.targ)
            err == wrap_to_pi(tgt[2] - mob[2]) * cont.flow_ori
            sign == IF r_des_above(tgt[1], mob[1], err, cont.flow_dir) THEN 1 ELSE -1
        IN  /\ ctl_call.ret = VecScale(<<CosQ(mob[2]), SinQ(mob[2]), 0>>, sign * vel_from_thrusters)
            /\ cont.r_diff = Finite(tgt[1] - mob[1])
            /\ cont.theta_diff = Finite(err)

\* the tie: no phase error and equal radii, thrust inward
C15_Witness ==
    /\ ctl_call.n >= 1
    /\ ctl_call.pos = <<0, 200>>
    /\ ctl_call.targ = <<0, 200>>
    /\ ctl_call.ret = <<0, -10, 0>>

\* a thrust decided by the phase term against the radius term
C15_WitnessPhaseDecides ==
    /\ ctl_call.n >= 1
    /\ ctl_call.pos = <<0, 200>>
    /\ ctl_call.targ = <<8053, 0>>
    /\ ctl_call.ret = <<0, -10, 0>>

====
